---- MODULE Spec2Model ----
(***************************************************************************)
(* Model of src/angelito_v3.py: the "Angelito" gift exchange.              *)
(*                                                                         *)
(* A Streamlit script run is one request handler: it runs init_db(), then  *)
(* stats(), then the code of the one button that was pressed.  Handlers    *)
(* run concurrently, each on a connection of its own, so every SQL         *)
(* statement (with its commit) is one atomic step and the Python code      *)
(* between two statements works on the handler's local variables.  The     *)
(* handlers differ in nothing but their local variables, so the runs in   *)
(* flight are kept as a bag of (program counter, locals) records.          *)
(*                                                                         *)
(* Optional values (SQL NULL / Python None) are sequences: NULL is <<>>    *)
(* and a present value v is <<v>>.  Phones and PINs are sequences of       *)
(* one-character strings, so that clean_phone, clean_pin and gen_pin_6     *)
(* are computed as the code computes them.                                 *)
(***************************************************************************)
EXTENDS Integers, Sequences, FiniteSets, Bags, TLC

\* ------------------------------------------------------------------ bounds
\* number of concurrent request handlers (Streamlit sessions)
NumHandlers == 2
\* number of script runs in one behaviour
MaxRuns == 3
\* gen_pin_6 draws from 0 .. NumPins-1 instead of 0 .. 999999
NumPins == 2
\* now_iso() returns one of the seconds 1 .. MaxClock
MaxClock == 2
\* max_tries of generate_derangement (20000 by default in the source)
MaxTries == 2
\* longest input list of generate_derangement in SpecGen
MaxItems == 3

\* ------------------------------------------------------------ basic values
NULL == <<>>
Some(v) == <<v>>

Digits == {"0", "1", "2", "3", "4", "5", "6", "7", "8", "9"}
DigitChar(d) == <<"0", "1", "2", "3", "4", "5", "6", "7", "8", "9">>[d + 1]

P1 == <<"1", "1", "1">>
P2 == <<"2", "2", "2">>
P3 == <<"3", "3", "3">>

\* line 19: the roster, cut down to the three participants of the
\* specification's end-to-end scenario
PARTICIPANTS == << <<"A", P1>>, <<"B", P2>>, <<"C", P3>> >>

\* re.sub(r"\D+", "", x or ""): keeps the digits, in order
clean_phone(x) == SelectSeq(x, LAMBDA c : c \in Digits)

clean_pin(x) == SelectSeq(x, LAMBDA c : c \in Digits)

\* now_iso(): the wall clock, read to the second
Times == 1 .. MaxClock

\* f"{n:06d}" for the n that random.randint drew
gen_pin_6(n) == [i \in 1 .. 6 |-> DigitChar((n \div (10 ^ (6 - i))) % 10)]

PinInts == 0 .. (NumPins - 1)

valid_phones_set == {PARTICIPANTS[i][2] : i \in 1 .. Len(PARTICIPANTS)}

phone_to_name_map ==
  [ph \in valid_phones_set |->
     PARTICIPANTS[CHOOSE i \in 1 .. Len(PARTICIPANTS) :
                    /\ PARTICIPANTS[i][2] = ph
                    /\ \A j \in (i + 1) .. Len(PARTICIPANTS) : PARTICIPANTS[j][2] # ph][1]]

\* ------------------------------------------------- generate_derangement
\* random.shuffle permutes the positions of the list
Perms(n) == {f \in [1 .. n -> 1 .. n] : \A i, j \in 1 .. n : f[i] = f[j] => i = j}

shuffle(items, perm) == [i \in 1 .. Len(items) |-> items[perm[i]]]

\* dict(zip(items, shuffled)): a later pair overrides an earlier one
dict_zip(items, shuffled) ==
  [k \in {items[i] : i \in 1 .. Len(items)} |->
     shuffled[CHOOSE i \in 1 .. Len(items) :
                /\ items[i] = k
                /\ \A j \in (i + 1) .. Len(items) : items[j] # k]]

\* the state of a call: its argument, the filtered list, the loop counter,
\* the latest shuffle and what it returns or raises
GenIdle == [status |-> "idle", input |-> <<>>, items |-> <<>>, max_tries |-> 0,
            tries |-> 0, shuffled |-> <<>>, mapping |-> <<>>]

\* the length check made on the unfiltered list
generate_derangement_enter_nofilter(items, max_tries) ==
  LET g == [GenIdle EXCEPT !.input = items, !.items = items, !.max_tries = max_tries]
  IN  IF Len(items) < 2
      THEN [g EXCEPT !.status = "ValueError"]
      ELSE IF max_tries = 0
      THEN [g EXCEPT !.status = "RuntimeError"]
      ELSE [g EXCEPT !.status = "loop"]

\* lines 70-74: the filter, the length check and the entry into the loop
generate_derangement_enter(items, max_tries) ==
  LET it == SelectSeq(items, LAMBDA i : i # <<>>)
      g == [GenIdle EXCEPT !.input = items, !.items = it, !.max_tries = max_tries]
  IN  IF Len(it) < 2
      THEN [g EXCEPT !.status = "ValueError"]
      ELSE IF max_tries = 0
      THEN [g EXCEPT !.status = "RuntimeError"]
      ELSE [g EXCEPT !.status = "loop"]

\* a loop that accepts every shuffle
generate_derangement_attempt_nocheck(g, perm) ==
  [g EXCEPT !.status = "return", !.tries = g.tries + 1,
            !.shuffled = shuffle(g.items, perm),
            !.mapping = dict_zip(g.items, shuffle(g.items, perm))]

\* a loop that makes one iteration more: range(max_tries + 1)
generate_derangement_attempt_one_more(g, perm) ==
  LET shuffled == shuffle(g.items, perm)
  IN  IF \A i \in 1 .. Len(g.items) : g.items[i] # shuffled[i]
      THEN [g EXCEPT !.status = "return", !.tries = g.tries + 1,
                     !.shuffled = shuffled,
                     !.mapping = dict_zip(g.items, shuffled)]
      ELSE IF g.tries + 1 = g.max_tries + 1
      THEN [g EXCEPT !.status = "RuntimeError", !.tries = g.tries + 1,
                     !.shuffled = shuffled]
      ELSE [g EXCEPT !.tries = g.tries + 1, !.shuffled = shuffled]

\* lines 74-80: one iteration of the loop, with the shuffle's outcome perm
generate_derangement_attempt(g, perm) ==
  LET shuffled == shuffle(g.items, perm)
  IN  IF \A i \in 1 .. Len(g.items) : g.items[i] # shuffled[i]
      THEN [g EXCEPT !.status = "return", !.tries = g.tries + 1,
                     !.shuffled = shuffled,
                     !.mapping = dict_zip(g.items, shuffled)]
      ELSE IF g.tries + 1 = g.max_tries
      THEN [g EXCEPT !.status = "RuntimeError", !.tries = g.tries + 1,
                     !.shuffled = shuffled]
      ELSE [g EXCEPT !.tries = g.tries + 1, !.shuffled = shuffled]

\* ------------------------------------------------------------------- state
VARIABLES
  table,   \* the participants table of angelito.db: its schema and its rows
  active,  \* the script runs in flight: a bag of their locals (with pc)
  runs,    \* script runs started so far
  gen,     \* the generate_derangement call of SpecGen
  seeded,  \* history: the derangement(s) inserted by init_db, newest last
  hist     \* history, per roster phone: what the calls so far returned

vars == <<table, active, runs, gen, seeded, hist>>

\* the locals of a script run that has just started
Blank == [pc |-> "init_pragma", phone |-> <<>>, pin |-> <<>>, count |-> 0,
          g |-> GenIdle, total |-> NULL, registered |-> NULL, revealed |-> NULL,
          name |-> NULL, new_pin |-> NULL, was_new |-> FALSE, status |-> ""]

Hist0 == [regStarted |-> FALSE, regCalls |-> 0, regNew |-> 0, firstNew |-> FALSE,
          regPins |-> {}, firstPin |-> NULL, resetSince |-> FALSE,
          revCalls |-> 0, firstRev |-> NULL, revTimes |-> {}, revNames |-> {}]

Cap2(n) == IF n >= 2 THEN 2 ELSE n

NoTable == [schema |-> "none", rows |-> <<>>]
OldTable == [schema |-> "old", rows |-> <<>>]

\* the inputs a user may type: one roster phone, plain and with a dash, a
\* phone that is not in the roster, and nothing
RawPhones == {P1, <<"1", "1", "-", "1">>, <<"9", "9", "9">>, <<>>}
RawPins == {gen_pin_6(n) : n \in PinInts}
             \cup {<<"0", "0", "0", "-", "0", "0", "0">>, <<"1", "2">>, <<>>}

\* a fresh deployment: angelito.db does not exist yet
Init ==
  /\ table = NoTable
  /\ active = EmptyBag
  /\ runs = 0
  /\ gen = GenIdle
  /\ seeded = <<>>
  /\ hist = [p \in valid_phones_set |-> Hist0]

\* a restart: the file may also hold a participants table of an older version
InitSeq ==
  /\ table \in {NoTable, OldTable}
  /\ active = EmptyBag
  /\ runs = 0
  /\ gen = GenIdle
  /\ seeded = <<>>
  /\ hist = [p \in valid_phones_set |-> Hist0]

\* the run r goes on with the locals r2
Move(r, r2) == active' = (active (-) SetToBag({r})) (+) SetToBag({r2})

\* the script run r ends: normally, by st.error, or by an exception
EndRun(r) == active' = active (-) SetToBag({r})

\* ------------------------------------------------------------------ init_db
\* a user interaction starts a script run on a free handler
StartRun ==
  /\ BagCardinality(active) < NumHandlers
  /\ runs < MaxRuns
  /\ runs' = runs + 1
  /\ active' = active (+) SetToBag({Blank})
  /\ UNCHANGED <<table, gen, seeded, hist>>

\* a check that drops every table it finds
schema_mismatch_any(schema) == schema # "none"

\* lines 94-95: cols and not required.issubset(set(cols))
schema_mismatch(schema) == schema = "old"

\* lines 90-97: PRAGMA table_info, and DROP TABLE when a column is missing.
\* (One step: a table of an older version exists only at a restart, where
\* the runs are sequential.)
InitSchema ==
  \E r \in DOMAIN active :
    /\ r.pc = "init_pragma"
    /\ table' = IF schema_mismatch(table.schema) THEN NoTable ELSE table
    /\ Move(r, [r EXCEPT !.pc = "init_create"])
    /\ UNCHANGED <<runs, gen, seeded, hist>>

\* lines 100-111: CREATE TABLE IF NOT EXISTS
InitCreate ==
  \E r \in DOMAIN active :
    /\ r.pc = "init_create"
    /\ table' = IF table.schema = "none" THEN [schema |-> "v3", rows |-> <<>>]
                ELSE table
    /\ Move(r, [r EXCEPT !.pc = "init_count"])
    /\ UNCHANGED <<runs, gen, seeded, hist>>

\* lines 114-119: SELECT COUNT(*), and the entry into generate_derangement
InitCount ==
  \E r \in DOMAIN active :
    /\ r.pc = "init_count"
    /\ LET count == Cardinality(DOMAIN table.rows)
           phones == [i \in 1 .. Len(PARTICIPANTS) |-> PARTICIPANTS[i][2]]
           g == generate_derangement_enter(phones, MaxTries)
       IN  IF count = 0
           THEN IF g.status = "loop"
                THEN Move(r, [r EXCEPT !.pc = "init_gen", !.count = count, !.g = g])
                ELSE EndRun(r)
           ELSE Move(r, [r EXCEPT !.pc = "stats_total", !.count = count])
    /\ UNCHANGED <<table, runs, gen, seeded, hist>>

\* lines 74-80 inside init_db: one shuffle attempt; RuntimeError ends the run.
\* (shuffled is not read after the test of line 77 and is rebuilt at line 75.)
InitGenAttempt ==
  \E r \in DOMAIN active :
    /\ r.pc = "init_gen"
    /\ \E perm \in Perms(Len(r.g.items)) :
         LET g == [generate_derangement_attempt(r.g, perm) EXCEPT !.shuffled = <<>>]
         IN  CASE g.status = "loop" -> Move(r, [r EXCEPT !.g = g])
               [] g.status = "return" -> Move(r, [r EXCEPT !.pc = "init_insert", !.g = g])
               [] OTHER -> EndRun(r)
    /\ UNCHANGED <<table, runs, gen, seeded, hist>>

\* rows that name the giver as the recipient
seed_rows_giver_name(assignment) ==
  [giver \in DOMAIN assignment |->
     [phone |-> giver, name |-> phone_to_name_map[giver], pin |-> NULL,
      assigned_to_phone |-> assignment[giver],
      assigned_to_name |-> phone_to_name_map[giver],
      registered_at |-> NULL, revealed_at |-> NULL]]

\* lines 120-127: the rows of the assignment
seed_rows(assignment) ==
  [giver \in DOMAIN assignment |->
     [phone |-> giver, name |-> phone_to_name_map[giver], pin |-> NULL,
      assigned_to_phone |-> assignment[giver],
      assigned_to_name |-> phone_to_name_map[assignment[giver]],
      registered_at |-> NULL, revealed_at |-> NULL]]

\* an INSERT OR REPLACE
executemany_insert_or_replace(old, rows) ==
  [ok |-> TRUE, rows |-> rows @@ old]

\* lines 128-132: executemany INSERT and commit, one transaction; a phone
\* already in the table raises sqlite3.IntegrityError and nothing is kept
executemany_insert(old, rows) ==
  IF (DOMAIN rows) \cap (DOMAIN old) # {}
  THEN [ok |-> FALSE, rows |-> old]
  ELSE [ok |-> TRUE, rows |-> rows @@ old]

\* lines 120-132: the rows, the INSERT and the commit; the exception of a
\* failed INSERT leaves init_db and stops the script
InitInsert ==
  \E r \in DOMAIN active :
    /\ r.pc = "init_insert"
    /\ LET ins == executemany_insert(table.rows, seed_rows(r.g.mapping))
       IN  IF ~ins.ok
           THEN /\ Move(r, [r EXCEPT !.pc = "IntegrityError"])
                /\ UNCHANGED <<table, seeded>>
           ELSE /\ table' = [table EXCEPT !.rows = ins.rows]
                /\ seeded' = Append(seeded, r.g.mapping)
                /\ Move(r, [r EXCEPT !.pc = "stats_total", !.g = GenIdle])
    /\ UNCHANGED <<runs, gen, hist>>

\* -------------------------------------------------------------------- stats
\* lines 247-252: SELECT COUNT(*) of the rows with a column set
CountSet(column) ==
  Cardinality({p \in DOMAIN table.rows : table.rows[p][column] # NULL})

\* lines 247-248
StatsTotal ==
  \E r \in DOMAIN active :
    /\ r.pc = "stats_total"
    /\ Move(r, [r EXCEPT !.pc = "stats_registered", !.count = 0,
                         !.total = Some(Cardinality(DOMAIN table.rows))])
    /\ UNCHANGED <<table, runs, gen, seeded, hist>>

\* lines 249-250
StatsRegistered ==
  \E r \in DOMAIN active :
    /\ r.pc = "stats_registered"
    /\ Move(r, [r EXCEPT !.pc = "stats_revealed",
                         !.registered = Some(CountSet("registered_at"))])
    /\ UNCHANGED <<table, runs, gen, seeded, hist>>

\* lines 251-254 and 348-352: the third count; the three are shown
StatsRevealed ==
  \E r \in DOMAIN active :
    /\ r.pc = "stats_revealed"
    /\ Move(r, [r EXCEPT !.pc = "buttons",
                         !.revealed = Some(CountSet("revealed_at"))])
    /\ UNCHANGED <<table, runs, gen, seeded, hist>>

\* the counters are on the page; the button's code does not read them
Shown(r) == [r EXCEPT !.total = NULL, !.registered = NULL, !.revealed = NULL]

\* cursor.fetchone() of a SELECT ... WHERE phone = ?
fetch_by_phone(phone) ==
  IF phone \in DOMAIN table.rows THEN Some(table.rows[phone]) ELSE NULL

\* no button was pressed and the page is only drawn; or a button that
\* changes nothing was: refresh, "Ver PIN" (lines 435-448, one SELECT), or
\* an organizer's button with a wrong password
NoButton ==
  \E r \in DOMAIN active :
    /\ r.pc = "buttons"
    /\ EndRun(r)
    /\ UNCHANGED <<table, runs, gen, seeded, hist>>

\* ----------------------------------------------------------- register_phone
\* a PIN drawn at every call
pin_or_new_always(pin, n) == Some(gen_pin_6(n))

\* lines 172-174: if pin is None: pin = gen_pin_6()
pin_or_new(pin, n) == IF pin = NULL THEN Some(gen_pin_6(n)) ELSE pin

\* a handler that calls register_phone without the roster check
register_outcome_unchecked(phone) ==
  IF fetch_by_phone(phone) = NULL THEN "not_found" ELSE "reg_update"

\* lines 366-371 and 165-167: where the submit of a phone leads: the roster
\* check of the handler, then the row check of register_phone
register_outcome(phone) ==
  IF phone \notin valid_phones_set THEN "unknown_participant"
  ELSE IF fetch_by_phone(phone) = NULL THEN "not_found"
  ELSE "reg_update"

\* lines 364-369 and 155-174: the form's submit, up to the SELECT of
\* register_phone and the PIN it draws when the row holds none
Submit ==
  \E r \in DOMAIN active :
    /\ r.pc = "buttons"
    /\ \E raw \in RawPhones :
         LET phone == clean_phone(raw)
             row == fetch_by_phone(phone)
         IN  IF register_outcome(phone) = "unknown_participant"
             THEN /\ Move(r, [Shown(r) EXCEPT !.pc = "unknown_participant",
                                             !.phone = phone])
                  /\ UNCHANGED hist
             ELSE IF register_outcome(phone) = "not_found"
             THEN /\ EndRun(r)
                  /\ hist' = [hist EXCEPT ![phone].regStarted = TRUE]
             ELSE /\ \E n \in (IF row[1].pin = NULL THEN PinInts ELSE {0}) :
                       Move(r, [Shown(r) EXCEPT
                                  !.pc = "reg_update",
                                  !.phone = phone,
                                  !.name = Some(row[1].name),
                                  !.was_new = (row[1].registered_at = NULL),
                                  !.new_pin = pin_or_new(row[1].pin, n)])
                  /\ hist' = [hist EXCEPT ![phone].regStarted = TRUE]
    /\ UNCHANGED <<table, runs, gen, seeded>>

\* history: register_phone returned (name, pin, was_new)
RegReturned(hp, pin, was_new) ==
  [hp EXCEPT !.regCalls = Cap2(hp.regCalls + 1),
             !.regNew = Cap2(hp.regNew + (IF was_new THEN 1 ELSE 0)),
             !.firstNew = IF hp.regCalls = 0 THEN was_new ELSE hp.firstNew,
             !.regPins = hp.regPins \cup {pin},
             !.firstPin = IF hp.regCalls = 0 THEN pin ELSE hp.firstPin]

COALESCE(a, b) == IF a # NULL THEN a ELSE b

\* an UPDATE that overwrites instead of COALESCE
register_phone_update_overwrite(row, ts, pin) ==
  [row EXCEPT !.registered_at = Some(ts), !.pin = pin]

\* lines 176-182: UPDATE ... SET registered_at = COALESCE(registered_at, ?),
\* pin = COALESCE(pin, ?)
register_phone_update(row, ts, pin) ==
  [row EXCEPT !.registered_at = COALESCE(row.registered_at, Some(ts)),
              !.pin = COALESCE(row.pin, pin)]

\* lines 176-186: now_iso(), the UPDATE, the commit and the return
RegUpdate ==
  \E r \in DOMAIN active :
    /\ r.pc = "reg_update"
    /\ \E ts \in Times :
         table' = IF r.phone \in DOMAIN table.rows
                  THEN [table EXCEPT !.rows[r.phone] =
                          register_phone_update(@, ts, r.new_pin)]
                  ELSE table
    /\ EndRun(r)
    /\ hist' = [hist EXCEPT ![r.phone] = RegReturned(@, r.new_pin, r.was_new)]
    /\ UNCHANGED <<runs, gen, seeded>>

\* ------------------------------------------------------- validate_phone_pin
\* a check without the registered_at test
validate_phone_pin_noreg(phone, pin) ==
  LET row == fetch_by_phone(phone)
  IN  IF row = NULL
      THEN [ok |-> FALSE, name |-> NULL, status |-> "None"]
      ELSE IF row[1].pin = NULL \/ Some(pin) # row[1].pin
      THEN [ok |-> FALSE, name |-> Some(row[1].name), status |-> "BAD_PIN"]
      ELSE [ok |-> TRUE, name |-> Some(row[1].name), status |-> "OK"]

\* lines 188-212: one SELECT, then the checks on the row it read
validate_phone_pin(phone, pin) ==
  LET row == fetch_by_phone(phone)
  IN  IF row = NULL
      THEN [ok |-> FALSE, name |-> NULL, status |-> "None"]
      ELSE IF row[1].registered_at = NULL
      THEN [ok |-> FALSE, name |-> Some(row[1].name), status |-> "NOT_REGISTERED"]
      ELSE IF row[1].pin = NULL \/ Some(pin) # row[1].pin
      THEN [ok |-> FALSE, name |-> Some(row[1].name), status |-> "BAD_PIN"]
      ELSE [ok |-> TRUE, name |-> Some(row[1].name), status |-> "OK"]

\* a handler without the BAD_PIN branch
reveal_allowed_nopin(v) == v.status # "NOT_REGISTERED" /\ v.status # "None"

\* lines 410-416: the branches that end the request without a reveal
reveal_allowed(v) ==
  /\ v.status # "NOT_REGISTERED"
  /\ v.status # "BAD_PIN"
  /\ v.ok

\* lines 404-417: the reveal button, up to the call of reveal_assignment
RevealBtn ==
  \E r \in DOMAIN active :
    /\ r.pc = "buttons"
    /\ \E raw \in RawPhones :
         LET phone2 == clean_phone(raw)
         IN  IF phone2 \notin valid_phones_set
             THEN EndRun(r)
             ELSE \E rawpin \in RawPins :
                    LET pin2 == clean_pin(rawpin)
                        v == validate_phone_pin(phone2, pin2)
                    IN  IF reveal_allowed(v)
                        THEN Move(r, [Shown(r) EXCEPT !.pc = "rev_select",
                                                      !.phone = phone2,
                                                      !.pin = pin2,
                                                      !.status = v.status])
                        ELSE EndRun(r)
    /\ UNCHANGED <<table, runs, gen, seeded, hist>>

\* -------------------------------------------------------- reveal_assignment
\* history: reveal_assignment returned (assigned_to_name, revealed_at)
RevReturned(hp, name, ts) ==
  [hp EXCEPT !.revCalls = Cap2(hp.revCalls + 1),
             !.firstRev = IF hp.revCalls = 0 THEN ts ELSE hp.firstRev,
             !.revTimes = hp.revTimes \cup {ts},
             !.revNames = hp.revNames \cup {name}]

\* lines 218-231 and 241-242: the SELECT, and the return when the row is
\* missing or already revealed
RevSelect ==
  \E r \in DOMAIN active :
    /\ r.pc = "rev_select"
    /\ LET row == fetch_by_phone(r.phone)
       IN  IF row = NULL
           THEN /\ EndRun(r)
                /\ UNCHANGED hist
           ELSE IF row[1].revealed_at = NULL
           THEN /\ Move(r, [r EXCEPT !.pc = "rev_update",
                                  !.name = Some(row[1].assigned_to_name)])
                /\ UNCHANGED hist
           ELSE /\ EndRun(r)
                /\ hist' = [hist EXCEPT ![r.phone] =
                              RevReturned(@, row[1].assigned_to_name,
                                          row[1].revealed_at)]
    /\ UNCHANGED <<table, runs, gen, seeded>>

\* an UPDATE without the condition on the stored value
reveal_assignment_update_always(row, ts) == [row EXCEPT !.revealed_at = Some(ts)]

\* lines 233-237: UPDATE ... SET revealed_at = ? WHERE ... revealed_at IS NULL
reveal_assignment_update(row, ts) ==
  IF row.revealed_at = NULL THEN [row EXCEPT !.revealed_at = Some(ts)] ELSE row

\* lines 232-242: now_iso(), the UPDATE, the commit and the return of
\* (assigned_to_name, ts)
RevUpdate ==
  \E r \in DOMAIN active :
    /\ r.pc = "rev_update"
    /\ \E ts \in Times :
         /\ table' = IF r.phone \in DOMAIN table.rows
                     THEN [table EXCEPT !.rows[r.phone] =
                             reveal_assignment_update(@, ts)]
                     ELSE table
         /\ hist' = [hist EXCEPT ![r.phone] =
                       RevReturned(@, r.name[1], Some(ts))]
    /\ EndRun(r)
    /\ UNCHANGED <<runs, gen, seeded>>

\* ------------------------------------------------------------ the organizer
\* lines 450-461 and 268: "Generar PIN nuevo" with the right password:
\* get_pin_by_phone's SELECT and the PIN that reset_pin draws
GenerarPin ==
  \E r \in DOMAIN active :
    /\ r.pc = "buttons"
    /\ \E raw \in RawPhones :
         LET phone_admin == clean_phone(raw)
             row == fetch_by_phone(phone_admin)
         IN  IF phone_admin = <<>> \/ row = NULL
             THEN EndRun(r)
             ELSE \E n \in PinInts :
                    Move(r, [Shown(r) EXCEPT !.pc = "reset_update",
                                             !.phone = phone_admin,
                                             !.name = Some(row[1].name),
                                             !.new_pin = Some(gen_pin_6(n))])
    /\ UNCHANGED <<table, runs, gen, seeded, hist>>

\* an UPDATE without its WHERE clause
reset_pin_update_all(rows, phone, pin) ==
  [p \in DOMAIN rows |-> [rows[p] EXCEPT !.pin = pin]]

\* lines 270-271: UPDATE participants SET pin = ? WHERE phone = ?
reset_pin_update(rows, phone, pin) ==
  [p \in DOMAIN rows |-> IF p = phone THEN [rows[p] EXCEPT !.pin = pin] ELSE rows[p]]

\* lines 269-274: the UPDATE, the commit and the return of the new PIN
ResetPin ==
  \E r \in DOMAIN active :
    /\ r.pc = "reset_update"
    /\ table' = [table EXCEPT !.rows = reset_pin_update(@, r.phone, r.new_pin)]
    /\ EndRun(r)
    /\ hist' = IF r.phone \in valid_phones_set
               THEN [hist EXCEPT ![r.phone].resetSince = hist[r.phone].regStarted]
               ELSE hist
    /\ UNCHANGED <<runs, gen, seeded>>

\* line 367 (st.error, after which the rest of the page is drawn) and
\* line 343 (the exception of init_db stops the script): the run is over
RunEnds ==
  \E r \in DOMAIN active :
    /\ r.pc \in {"unknown_participant", "IntegrityError"}
    /\ EndRun(r)
    /\ UNCHANGED <<table, runs, gen, seeded, hist>>

\* ----------------------------------------------------------- specifications
\* handlers run concurrently
Next ==
  \/ StartRun
  \/ InitSchema
  \/ InitCreate
  \/ InitCount
  \/ InitGenAttempt
  \/ InitInsert
  \/ StatsTotal
  \/ StatsRegistered
  \/ StatsRevealed
  \/ NoButton
  \/ Submit
  \/ RegUpdate
  \/ RevealBtn
  \/ RevSelect
  \/ RevUpdate
  \/ GenerarPin
  \/ ResetPin
  \/ RunEnds

Spec == Init /\ [][Next]_vars

\* one script run at a time
StartRunSeq ==
  /\ active = EmptyBag
  /\ StartRun

NextSeq ==
  \/ StartRunSeq
  \/ InitSchema
  \/ InitCreate
  \/ InitCount
  \/ InitGenAttempt
  \/ InitInsert
  \/ StatsTotal
  \/ StatsRegistered
  \/ StatsRevealed
  \/ NoButton
  \/ Submit
  \/ RegUpdate
  \/ RevealBtn
  \/ RevSelect
  \/ RevUpdate
  \/ GenerarPin
  \/ ResetPin
  \/ RunEnds

SpecSeq == InitSeq /\ [][NextSeq]_vars

\* ------------------------------------- generate_derangement on its own
GenIds == {P1, P2, P3, <<>>}
ItemSeqs == UNION {[1 .. n -> GenIds] : n \in 0 .. MaxItems}

\* a call with any list of identifiers and any max_tries
InitGen ==
  /\ table = NoTable
  /\ active = EmptyBag
  /\ runs = 0
  /\ seeded = <<>>
  /\ hist = [p \in valid_phones_set |-> Hist0]
  /\ \E items \in ItemSeqs, max_tries \in 0 .. MaxTries :
       gen = [GenIdle EXCEPT !.status = "call", !.input = items,
                             !.max_tries = max_tries]

\* lines 70-74
GenEnter ==
  /\ gen.status = "call"
  /\ gen' = generate_derangement_enter(gen.input, gen.max_tries)
  /\ UNCHANGED <<table, active, runs, seeded, hist>>

\* lines 74-80: one iteration, with any outcome of random.shuffle
GenAttempt ==
  /\ gen.status = "loop"
  /\ \E perm \in Perms(Len(gen.items)) :
       gen' = generate_derangement_attempt(gen, perm)
  /\ UNCHANGED <<table, active, runs, seeded, hist>>

NextGen == GenEnter \/ GenAttempt

SpecGen == InitGen /\ [][NextGen]_vars

\* the interpreter goes on executing a call that has not returned or raised
SpecGenFair == SpecGen /\ WF_vars(NextGen)

\* ===================================================================
\* Properties
\* ===================================================================
\* the run that takes the step, and the run the step leaves behind
Stepper(r) == r \in DOMAIN active /\ CopiesIn(r, active) > CopiesIn(r, active')
Entered(r2) == CopiesIn(r2, active') > CopiesIn(r2, active)

\* a call of register_phone for p has read the row and not yet returned
RegInFlight(p) == \E r \in DOMAIN active : r.pc = "reg_update" /\ r.phone = p

\* the name of the recipient the seeding gave to p
SeedName(p) == phone_to_name_map[seeded[Len(seeded)][p]]

\* the PINs a participant can type, cleaned
SuppliedPins == {clean_pin(x) : x \in RawPins}

\* C1: when several register calls for the same previously unregistered
\* phone run concurrently, then once they have all returned (and no PIN
\* reset happened) exactly one returned was_new = TRUE and every call
\* returned the PIN that the record stores.
C1_ConcurrentRegisterOneWinner ==
  \A p \in valid_phones_set :
    (hist[p].regCalls >= 1 /\ ~hist[p].resetSince /\ ~RegInFlight(p))
      => /\ hist[p].regNew = 1
         /\ hist[p].regPins = {table.rows[p].pin}

\* C2: with the calls made one after another, the first register call for
\* a roster phone returns was_new = TRUE and a PIN; without a PIN reset in
\* between, every later call returns was_new = FALSE and that same PIN.
C2_SequentialRegister ==
  \A p \in valid_phones_set :
    LET hp == hist[p]
    IN  /\ hp.regCalls >= 1 => (hp.firstNew /\ hp.firstPin # NULL)
        /\ (hp.regCalls >= 2 /\ ~hp.resetSince)
             => (hp.regNew = 1 /\ hp.regPins = {hp.firstPin})

C2_Witness ==
  \E p \in valid_phones_set : hist[p].regCalls = 2 /\ ~hist[p].resetSince

\* C3: the reveal handler calls reveal_assignment only after the check of
\* the phone and PIN returned OK: a run enters reveal_assignment only with
\* a phone and PIN that validate against the table at that moment, only
\* such a run writes revealed_at or returns a recipient, and a button
\* whose validation fails leaves the table as it was.
C3_RevealOnlyAfterOk ==
  [][ /\ \A r2 \in DOMAIN active' :
           (r2.pc = "rev_select" /\ Entered(r2))
             => (r2.status = "OK" /\ validate_phone_pin(r2.phone, r2.pin).ok)
      /\ \A r2 \in DOMAIN active' :
           r2.pc \in {"rev_select", "rev_update"} => r2.status = "OK"
      /\ \A p \in DOMAIN table.rows :
           (\/ p \notin DOMAIN table'.rows
            \/ table'.rows[p].revealed_at # table.rows[p].revealed_at
            \/ hist'[p].revCalls # hist[p].revCalls
            \/ hist'[p].revNames # hist[p].revNames)
             => \E r \in DOMAIN active :
                  /\ Stepper(r)
                  /\ r.pc \in {"rev_select", "rev_update"}
                  /\ r.phone = p
                  /\ r.status = "OK"
      /\ (\E r \in DOMAIN active :
            /\ Stepper(r)
            /\ r.pc = "buttons"
            /\ \A r2 \in DOMAIN active' : ~Entered(r2))
           => table' = table
    ]_vars

C3_Witness ==
  \E p \in valid_phones_set :
    /\ hist[p].revCalls >= 1
    /\ table.rows[p].revealed_at # NULL

\* C4 as stated: for a roster phone with a record, validate_phone_pin
\* returns NOT_REGISTERED until register_phone has been called for it;
\* once a registration has returned, it returns OK exactly for the PIN
\* returned at registration and BAD_PIN for any other PIN; without a
\* record it returns nothing (not found).
C4_ValidateAgainstRegistrationPin ==
  \A p \in valid_phones_set : \A pin \in SuppliedPins :
    LET v == validate_phone_pin(p, pin)
    IN  /\ p \notin DOMAIN table.rows => v.status = "None"
        /\ (p \in DOMAIN table.rows /\ ~hist[p].regStarted)
             => v.status = "NOT_REGISTERED"
        /\ hist[p].regCalls >= 1
             => v.status = (IF Some(pin) = hist[p].firstPin THEN "OK" ELSE "BAD_PIN")

\* C4, amended: as above, but once a registration has returned, OK is
\* returned exactly for the PIN the record stores now (the registration
\* PIN until reset_pin replaces it) and BAD_PIN for any other PIN.
C4_ValidateAgainstStoredPin ==
  \A p \in valid_phones_set : \A pin \in SuppliedPins :
    LET v == validate_phone_pin(p, pin)
    IN  /\ p \notin DOMAIN table.rows => v.status = "None"
        /\ (p \in DOMAIN table.rows /\ ~hist[p].regStarted)
             => v.status = "NOT_REGISTERED"
        /\ hist[p].regCalls >= 1
             => /\ table.rows[p].pin # NULL
                /\ v.status = (IF Some(pin) = table.rows[p].pin THEN "OK" ELSE "BAD_PIN")
                /\ v.ok = (v.status = "OK")

C4_Witness ==
  \E p \in valid_phones_set :
    /\ hist[p].regCalls >= 1
    /\ hist[p].resetSince
    /\ table.rows[p].pin # hist[p].firstPin
    /\ \E pin \in SuppliedPins : validate_phone_pin(p, pin).status = "OK"

\* C5: with the calls made one after another, the first reveal for a phone
\* sets revealed_at to its timestamp; every later reveal returns the same
\* recipient name (the one given at seed time) and the same timestamp, and
\* leaves the table unchanged.
C5_SequentialRevealIdempotent ==
  /\ [](\A p \in valid_phones_set :
          hist[p].revCalls >= 1
            => /\ hist[p].firstRev # NULL
               /\ table.rows[p].revealed_at = hist[p].firstRev
               /\ hist[p].revTimes = {hist[p].firstRev}
               /\ hist[p].revNames = {SeedName(p)})
  /\ [][\A r \in DOMAIN active :
          (/\ Stepper(r)
           /\ r.pc \in {"rev_select", "rev_update"}
           /\ hist[r.phone].revCalls >= 1)
            => table' = table]_vars

C5_Witness ==
  \E p \in valid_phones_set :
    /\ hist[p].revCalls = 2
    /\ table.rows[p].revealed_at = hist[p].firstRev

\* C6: when several reveals for the same phone run concurrently, the
\* stored revealed_at is written once (a value that is set never changes)
\* and every call returns the recipient name given at seed time.
C6_ConcurrentRevealWrittenOnce ==
  /\ [][\A p \in DOMAIN table.rows :
          table.rows[p].revealed_at # NULL
            => /\ p \in DOMAIN table'.rows
               /\ table'.rows[p].revealed_at = table.rows[p].revealed_at]_vars
  /\ [](\A p \in valid_phones_set :
          hist[p].revCalls >= 1 => hist[p].revNames = {SeedName(p)})

\* two calls that both read revealed_at = NULL have returned
C6_Witness ==
  \E p \in valid_phones_set :
    /\ hist[p].revCalls = 2
    /\ Cardinality(hist[p].revTimes) = 2
    /\ table.rows[p].revealed_at # NULL

\* positions of a run inside init_db
InitPcs == {"init_pragma", "init_create", "init_count", "init_gen", "init_insert"}

\* the roster as a set of non-empty phones, and the filter of line 70
Filtered(items) == SelectSeq(items, LAMBDA i : i # <<>>)
SeqSet(items) == {items[i] : i \in DOMAIN items}
Distinct(items) == Cardinality(SeqSet(items)) = Len(items)

\* C7: once init_db has returned to a run, and whenever the table holds
\* rows, the table holds exactly one row per roster phone, no row assigns
\* a participant to themselves, and the assignment is a bijection of the
\* roster phones.
C7_SeededAssignmentIsDerangement ==
  /\ (\E r \in DOMAIN active : r.pc \notin InitPcs) => table.rows # <<>>
  /\ table.rows # <<>>
       => /\ DOMAIN table.rows = valid_phones_set
          /\ \A p \in DOMAIN table.rows :
               /\ table.rows[p].phone = p
               /\ table.rows[p].assigned_to_phone # p
               /\ table.rows[p].assigned_to_phone \in valid_phones_set
               /\ table.rows[p].assigned_to_name =
                    phone_to_name_map[table.rows[p].assigned_to_phone]
          /\ {table.rows[p].assigned_to_phone : p \in DOMAIN table.rows}
               = valid_phones_set

C7_Witness ==
  /\ table.rows # <<>>
  /\ Len(seeded) = 1
  /\ \E r \in DOMAIN active : r.pc = "buttons"
  /\ \E p \in valid_phones_set : hist[p].revCalls >= 1

\* C8: for an input of at least two distinct non-empty identifiers, a
\* mapping returned by generate_derangement has the input set as its keys
\* and as its values and maps no identifier to itself.
C8_ResultIsDerangement ==
  (/\ gen.status = "return"
   /\ Filtered(gen.input) = gen.input
   /\ Distinct(gen.input)
   /\ Len(gen.input) >= 2)
    => /\ DOMAIN gen.mapping = SeqSet(gen.input)
       /\ {gen.mapping[k] : k \in DOMAIN gen.mapping} = SeqSet(gen.input)
       /\ \A k \in DOMAIN gen.mapping : gen.mapping[k] # k

C8_Witness ==
  /\ gen.status = "return"
  /\ Len(gen.input) = 3
  /\ Distinct(gen.input)
  /\ Filtered(gen.input) = gen.input
  /\ gen.tries = 2

\* C9: with fewer than two identifiers left after the empty ones are
\* discarded, generate_derangement raises ValueError, returns no mapping
\* and makes no shuffle attempt.
C9_TooFewParticipants ==
  (gen.status # "call" /\ Len(Filtered(gen.input)) < 2)
    => /\ gen.status = "ValueError"
       /\ gen.mapping = <<>>
       /\ gen.tries = 0

\* empties are discarded before the count
C9_Witness ==
  /\ gen.status = "ValueError"
  /\ Len(gen.input) >= 2
  /\ Len(Filtered(gen.input)) = 1

\* C10: with the runs made one after another, init_db on a store that is
\* already populated inserts nothing, generates no new derangement and
\* leaves the rows as they are.
C10_InitializeIdempotent ==
  /\ [](/\ Len(seeded) <= 1
        /\ \A r \in DOMAIN active :
             r.pc \in {"init_gen", "init_insert"} => table.rows = <<>>)
  /\ [][\A r \in DOMAIN active :
          (/\ Stepper(r)
           /\ r.pc \in InitPcs
           /\ table.schema = "v3"
           /\ table.rows # <<>>)
            => /\ table' = table
               /\ seeded' = seeded
               /\ \A r2 \in DOMAIN active' :
                    Entered(r2) => r2.pc \notin {"init_gen", "init_insert"}]_vars

\* a later init_db has counted the rows of a store that is in use
C10_Witness ==
  /\ \E r \in DOMAIN active : r.pc = "stats_total" /\ r.count > 0
  /\ \E p \in valid_phones_set : hist[p].regCalls >= 1
  /\ Len(seeded) = 1

\* the columns that only the seeding writes
Immutable(row) ==
  [phone |-> row.phone, name |-> row.name,
   assigned_to_phone |-> row.assigned_to_phone,
   assigned_to_name |-> row.assigned_to_name]

\* C11: when init_db runs concurrently in several script runs on an empty
\* store, at most one of them seeds: the table then holds one row per
\* roster phone, all from the one derangement that was inserted, and the
\* INSERT of any other run fails on the primary key (IntegrityError)
\* without adding or altering a row.
C11_ConcurrentSeedOnce ==
  /\ [](/\ Len(seeded) <= 1
        /\ table.rows # <<>>
             => /\ Len(seeded) = 1
                /\ DOMAIN table.rows = valid_phones_set
                /\ \A p \in DOMAIN table.rows :
                     Immutable(table.rows[p]) = Immutable(seed_rows(seeded[1])[p])
        /\ \A r \in DOMAIN active :
             r.pc = "IntegrityError" => table.rows # <<>>)
  /\ [][\A r \in DOMAIN active :
          (Stepper(r) /\ r.pc = "init_insert" /\ table.rows # <<>>)
            => /\ table' = table
               /\ seeded' = seeded
               /\ \A r2 \in DOMAIN active' : Entered(r2) => r2.pc = "IntegrityError"]_vars

\* a second run generated another derangement and its INSERT has failed
C11_Witness ==
  /\ Len(seeded) = 1
  /\ \E r \in DOMAIN active :
       /\ r.pc = "IntegrityError"
       /\ r.g.mapping # seeded[1]
  /\ \A p \in valid_phones_set :
       Immutable(table.rows[p]) = Immutable(seed_rows(seeded[1])[p])

\* C12: for a record in any registration or reveal state, reset_pin
\* overwrites the stored PIN with the value it returns, and the stored PIN
\* after the call differs from the stored PIN before the call.
C12_ResetChangesStoredPin ==
  [][\A r \in DOMAIN active :
       (Stepper(r) /\ r.pc = "reset_update" /\ r.phone \in DOMAIN table.rows)
         => /\ table'.rows[r.phone].pin = r.new_pin
            /\ table'.rows[r.phone].pin # table.rows[r.phone].pin]_vars

\* C13: in every store state, registering a phone that is not in the
\* roster gives the unknown-participant outcome (no name, no PIN, was_new
\* FALSE) and leaves every record unchanged.
C13_UnknownParticipant ==
  /\ [](/\ \A raw \in RawPhones :
             clean_phone(raw) \notin valid_phones_set
               => /\ register_outcome(clean_phone(raw)) = "unknown_participant"
                  /\ fetch_by_phone(clean_phone(raw)) = NULL
        /\ \A r \in DOMAIN active :
             /\ r.pc = "unknown_participant"
                  => /\ r.phone \notin valid_phones_set
                     /\ r.name = NULL /\ r.new_pin = NULL /\ ~r.was_new
             /\ r.pc = "reg_update" => r.phone \in valid_phones_set)
  /\ [][\A r2 \in DOMAIN active' :
          (Entered(r2) /\ r2.pc = "unknown_participant")
            => (table' = table /\ hist' = hist)]_vars

\* the outcome on a store that is in use
C13_Witness ==
  /\ \E r \in DOMAIN active :
       /\ r.pc = "unknown_participant"
       /\ r.phone = <<"9", "9", "9">>
  /\ \E p \in valid_phones_set : table.rows[p].registered_at # NULL

\* C14: across any interleaving of registrations, reveal requests and PIN
\* resets, revealed_at is set only in a record whose registered_at is set,
\* and each of registered_at and revealed_at, once set, is never changed
\* or cleared.
C14_TimestampsSetOnce ==
  /\ [](\A p \in DOMAIN table.rows :
          table.rows[p].revealed_at # NULL => table.rows[p].registered_at # NULL)
  /\ [][\A p \in DOMAIN table.rows :
          /\ table.rows[p].registered_at # NULL
               => /\ p \in DOMAIN table'.rows
                  /\ table'.rows[p].registered_at = table.rows[p].registered_at
          /\ table.rows[p].revealed_at # NULL
               => /\ p \in DOMAIN table'.rows
                  /\ table'.rows[p].revealed_at = table.rows[p].revealed_at]_vars

\* a revealed record for which register_phone has run again
C14_Witness ==
  \E p \in DOMAIN table.rows :
    /\ table.rows[p].revealed_at # NULL
    /\ table.rows[p].registered_at # NULL
    /\ hist[p].regCalls = 2

\* C15: a stored PIN, once set, is changed only by reset_pin: no step of a
\* registration, a validation or a reveal changes it, and no step sets it
\* back to NULL.
C15_PinChangedOnlyByReset ==
  [][\A p \in DOMAIN table.rows :
       table.rows[p].pin # NULL
         => /\ p \in DOMAIN table'.rows
            /\ table'.rows[p].pin # NULL
            /\ table'.rows[p].pin # table.rows[p].pin
                 => \E r \in DOMAIN active :
                      Stepper(r) /\ r.pc = "reset_update" /\ r.phone = p]_vars

\* a register_phone call that had drawn a PIN of its own has made its
\* UPDATE on a record that already held another PIN
C15_Witness ==
  \E p \in DOMAIN table.rows :
    /\ hist[p].regCalls = 2
    /\ ~hist[p].resetSince
    /\ \E pin \in hist[p].regPins : pin # table.rows[p].pin
    /\ table.rows[p].pin \in hist[p].regPins

\* C16: every registration, validation, reveal and PIN reset for a phone p
\* leaves all fields of every other record unchanged and leaves p's phone,
\* name, assigned_to_phone and assigned_to_name unchanged; only
\* registered_at, pin and revealed_at of p's record may change.
C16_OnlyOwnRecordMutableFields ==
  [][table.rows # <<>>
       => /\ DOMAIN table'.rows = DOMAIN table.rows
          /\ \A q \in DOMAIN table.rows :
               /\ Immutable(table'.rows[q]) = Immutable(table.rows[q])
               /\ table'.rows[q] # table.rows[q]
                    => \E r \in DOMAIN active :
                         /\ Stepper(r)
                         /\ r.pc \in {"reg_update", "rev_update", "reset_update"}
                         /\ r.phone = q
                         /\ \A r2 \in DOMAIN active' : ~Entered(r2)]_vars

\* p was registered, revealed and given a new PIN; the other records are
\* as the seeding wrote them
C16_Witness ==
  /\ Len(seeded) = 1
  /\ \E p \in DOMAIN table.rows :
       /\ table.rows[p].registered_at # NULL
       /\ table.rows[p].revealed_at # NULL
       /\ hist[p].resetSince
       /\ \A q \in DOMAIN table.rows \ {p} : table.rows[q] = seed_rows(seeded[1])[q]

\* the call has returned or raised
GenDone == gen.status \in {"return", "RuntimeError", "ValueError"}

\* C17: generate_derangement always terminates: for an input of at least
\* two identifiers and any outcome of the shuffles it returns a mapping or
\* raises RuntimeError after at most max_tries shuffles, and it returns at
\* the first shuffle that has no position equal to the original list.
C17_GenerationTerminates ==
  /\ <>GenDone
  /\ [](/\ gen.tries <= gen.max_tries
        /\ gen.status = "RuntimeError"
             => (gen.tries = gen.max_tries /\ gen.mapping = <<>>)
        /\ gen.status = "return"
             => /\ gen.tries >= 1
                /\ gen.mapping = dict_zip(gen.items, gen.shuffled))
  /\ [][gen.status = "loop"
          => /\ Len(gen.items) >= 2
             /\ gen'.tries = gen.tries + 1
             /\ gen'.status \in {"loop", "return", "RuntimeError"}
             /\ gen'.status = "return"
                  <=> \A i \in 1 .. Len(gen.items) : gen'.shuffled[i] # gen.items[i]]_vars

\* every shuffle of a list that has derangements had a fixed position
C17_Witness ==
  /\ gen.status = "RuntimeError"
  /\ gen.tries = MaxTries
  /\ Len(gen.items) = 3
  /\ Distinct(gen.items)

\* C18: for every reveal_assignment call, also one that runs concurrently
\* with other calls for the same phone, the revealed_at it returns equals
\* the revealed_at stored in the record when the call completes.
C18_ReturnedRevealTimeIsStored ==
  [][\A p \in valid_phones_set :
       \A ts \in hist'[p].revTimes \ hist[p].revTimes :
         p \in DOMAIN table'.rows /\ ts = table'.rows[p].revealed_at]_vars

\* C19: in every reachable state, stats returns total = the number of
\* records, registered = the number of records with registered_at set,
\* revealed = the number of records with revealed_at set, and
\* revealed <= registered <= total = the size of the roster.
C19_StatsAreTheCounts ==
  [][\A r2 \in DOMAIN active' :
       (Entered(r2) /\ r2.pc = "buttons")
         => /\ r2.total = Some(Cardinality(DOMAIN table'.rows))
            /\ r2.registered = Some(Cardinality({p \in DOMAIN table'.rows :
                                      table'.rows[p].registered_at # NULL}))
            /\ r2.revealed = Some(Cardinality({p \in DOMAIN table'.rows :
                                    table'.rows[p].revealed_at # NULL}))
            /\ r2.revealed[1] <= r2.registered[1]
            /\ r2.registered[1] <= r2.total[1]
            /\ r2.total[1] = Cardinality(valid_phones_set)]_vars

\* C20: when a reveal request (validation, then reveal) is interleaved
\* with a PIN reset for the same phone, revealed_at is set and the
\* recipient is returned only if the PIN of the request equals the PIN
\* stored at the moment of the reveal step; a request whose PIN was
\* replaced between its validation and its reveal does not reveal.
C20_RevealNeedsCurrentPin ==
  [][\A r \in DOMAIN active :
       (/\ Stepper(r)
        /\ r.pc \in {"rev_select", "rev_update"}
        /\ r.phone \in DOMAIN table.rows
        /\ \/ hist'[r.phone] # hist[r.phone]
           \/ table'.rows[r.phone].revealed_at # table.rows[r.phone].revealed_at)
         => Some(r.pin) = table.rows[r.phone].pin]_vars

====
